---- MODULE Spec2Model ----
(***************************************************************************)
(* Signaling/matchmaking servers of VoiceApp.                              *)
(*                                                                         *)
(* The repository ships two server programs:                               *)
(*   server/server.js          (socket.io; called "io" below)              *)
(*   server/signalingServer.js (ws WebSocketServer; called "ws" below)     *)
(* A behaviour of Spec runs one of them (variable server), from the state  *)
(* right after the process started: no room, no connection.                *)
(*                                                                         *)
(* Further specifications over the same variables:                         *)
(*   SpecOrder      the ws relay with its deliveries logged                *)
(*   SpecRoles      server.js with the isHost it tells its clients         *)
(*   SpecClient     the browser client (hooks/useWebRTC.ts, App.tsx)       *)
(*   SpecSignal     the ws signaling client (unnamed/part_002)             *)
(*   SpecNegotiate  one peer connection and the calls suspended on it      *)
(*   SpecDispatch   signalingService over realSignalingService (part_000)  *)
(***************************************************************************)
EXTENDS Integers, Sequences, FiniteSets, TLC

\* ---------------------------------------------------------------- bounds
MaxPayloads == 2
\* the negotiation messages the relay receives in a run of SpecOrder
MaxRelayed == 2
\* the remote ICE candidates that reach a client during one call attempt
MaxCandidates == 2
\* the end-of-session reports a client makes during one call attempt
MaxReports == 2
\* the reconnection timers the signaling client sets in one run
MaxScheduled == 7
\* the negotiation messages one peer connection handles
MaxMessages == 3
\* the setSimulationMode calls of one run of SpecDispatch
MaxSwitches == 3
\* the times the signaling socket connects in one run of SpecDispatch
MaxConnects == 3

\* the transport connections (socket.io sockets, ws WebSockets) of a run
Conns == {1, 2, 3}
RoomIds == {"R1", "R2"}
\* the session descriptions and candidates clients send; the servers never look inside
Payloads == 1..MaxPayloads
Kinds == {"offer", "answer", "ice-candidate"}
\* socket.userId, socket.roomId before any accepted join
Undefined == "undefined"

\* The userId a client presents in its join-room messages. A client keeps one
\* userId for the life of its connection; two clients may present the same one
\* (the servers take it from the message and never check it).
UserIdOf(c) == IF c % 2 = 1 THEN "a" ELSE "b"

VARIABLES
    server,        \* "io": server/server.js runs; "ws": server/signalingServer.js runs
    readyState,    \* per connection: "OPEN", "CLOSING" (ws: closing handshake under
                   \*     way, 'close' not yet emitted), "CLOSED"
    rooms,         \* the Map rooms: room id -> Set (socket ids in io, user ids in ws)
    socketUserId,  \* io: socket.userId per socket (Undefined until a join is accepted)
    socketRoomId,  \* io: socket.roomId per socket (Undefined until a join is accepted)
    adapter,       \* io: socket.io's own room membership (socket.join / socket.leave),
                   \*     room id -> sequence of socket ids in insertion order
    connections,   \* ws: the Map connections in insertion order,
                   \*     a sequence of [ws, userId, roomId]
    lastEvent,     \* the event whose handler ran last (the handler's socket and data)
    sent,          \* the messages that handler handed to transports, in order: [to, msg]
    isHost,        \* SpecRoles: per connection, the isHost of the joined-room reply
                   \*     it got for the room it is in ("true", "false" or Undefined)
    received,      \* SpecOrder: how many negotiation messages the relay has received
    inbox,         \* SpecOrder: per connection, what its transport was handed so far,
                   \*     oldest first: [seq, type], seq the message's arrival rank
    client,        \* SpecClient: one browser client, the refs of hooks/useWebRTC.ts and
                   \*     the state of App.tsx (a record, see NewClient)
    clientEvent,   \* SpecClient: the event whose handlers ran last
    did,           \* SpecClient: what those handlers did, in order
    signal,        \* SpecSignal: the fields of the ws signaling client of
                   \*     unnamed/part_002 (a record, see NewSignal)
    signalEvent,   \* SpecSignal: the event or call that ran last
    signalDid,     \* SpecSignal: what it did, in order
    nego,          \* SpecNegotiate: one peer connection of hooks/useWebRTC.ts and
                   \*     the calls suspended on it (a record, see NewNego)
    negoEvent,     \* SpecNegotiate: the message handled or operation settled last
    dispatch,      \* SpecDispatch: the two signaling services of the App of
                   \*     unnamed/part_000 and their handler lists (see NewDispatch)
    dispatchEvent  \* SpecDispatch: the call or socket event that ran last

serverVars == <<server, readyState, rooms, socketUserId, socketRoomId, adapter,
                connections, lastEvent, sent>>

orderVars == <<received, inbox>>

roleVars == <<isHost>>

clientVars == <<client, clientEvent, did>>

signalVars == <<signal, signalEvent, signalDid>>

negoVars == <<nego, negoEvent>>

dispatchVars == <<dispatch, dispatchEvent>>

vars == <<serverVars, orderVars, roleVars, clientVars, signalVars, negoVars, dispatchVars>>

ioVars == <<socketUserId, socketRoomId, adapter>>

\* ------------------------------------------------------------- helpers

\* Map.has / Map.set / Map.delete on rooms
HasRoom(m, r) == r \in DOMAIN m

SetRoom(m, r, s) == [x \in (DOMAIN m) \cup {r} |-> IF x = r THEN s ELSE m[x]]

DeleteRoom(m, r) == [x \in (DOMAIN m) \ {r} |-> m[x]]

RECURSIVE SeqWithout(_, _)
SeqWithout(s, x) ==
    IF s = <<>> THEN <<>>
    ELSE IF Head(s) = x THEN SeqWithout(Tail(s), x)
    ELSE <<Head(s)>> \o SeqWithout(Tail(s), x)

SeqHas(s, x) == \E i \in 1..Len(s) : s[i] = x

\* Set.add on an insertion-ordered Set
SeqAdd(s, x) == IF SeqHas(s, x) THEN s ELSE Append(s, x)

Range(s) == {s[i] : i \in 1..Len(s)}

\* one send per recipient, in the order of the recipients
RECURSIVE Sends(_, _)
Sends(recipients, msg) ==
    IF recipients = <<>> THEN <<>>
    ELSE <<[to |-> Head(recipients), msg |-> msg]>> \o Sends(Tail(recipients), msg)

\* The server listens and the clients' transports are connected: the
\* 'connection' handlers of both programs only register the handlers below.
ServerInit ==
    /\ server \in {"io", "ws"}
    /\ readyState = [c \in Conns |-> "OPEN"]
    /\ rooms = <<>>
    /\ socketUserId = [c \in Conns |-> Undefined]
    /\ socketRoomId = [c \in Conns |-> Undefined]
    /\ adapter = [r \in RoomIds |-> <<>>]
    /\ connections = <<>>
    /\ lastEvent = [type |-> "connection"]
    /\ sent = <<>>

\* nothing relayed yet
OrderIdle ==
    /\ received = 0
    /\ inbox = [c \in Conns |-> <<>>]
    /\ isHost = [c \in Conns |-> Undefined]

\* The client right after App mounted: no call, no peer connection, no stream.
\* userId is whether userIdRef holds the socket id: App.tsx sets it in a
\* 'connect' listener it registers after mount, which may come after the
\* socket connected.
NewClient(userId) ==
    [ui |-> "disconnected",      \* App.tsx: isConnected
     error |-> FALSE,            \* App.tsx: error is not ''
     pc |-> "null",              \* peerConnectionRef.current: "null" or "open"
     rd |-> FALSE,               \* that peer connection has a remote description
     sig |-> "stable",           \* its signalingState: "stable" or "have-local-offer"
     local |-> "null",           \* localStreamRef.current: "null" or "live"
     remote |-> "null",          \* remoteStreamRef.current: "null" or "live"
     room |-> "null",            \* currentRoomRef.current: "null" or "set"
     userId |-> userId,          \* userIdRef.current is not ''
     transport |-> TRUE,         \* the signaling socket is connected
     starting |-> "no",          \* createRoom/joinRoom is suspended: "no", at
                                 \* "ice" (getIceServers) or at "media" (getUserMedia)
     arrived |-> 0,              \* remote candidates received in this call attempt
     applied |-> <<>>,           \* the candidates added to the peer connection, in order
     lost |-> <<>>,              \* the candidates addIceCandidate gave up: [cand, why]
     stops |-> 0,                \* times the local tracks were stopped in this attempt
     closes |-> 0,               \* pc.close() calls in this attempt
     leaves |-> 0,               \* leave messages sent in this attempt
     reports |-> 0,              \* end states passed to the state-change callback
     connectedBy |-> "none",     \* what last set isConnected to 'connected'
     replaced |-> FALSE]         \* a peer connection with a local description was
                                 \* overwritten in peerConnectionRef and never closed

ClientIdle ==
    /\ client = NewClient(TRUE)
    /\ clientEvent = [type |-> "mount"]
    /\ did = <<>>

\* unnamed/part_002, the fields of a new RealSignalingService
maxReconnectAttempts == 5
InitialReconnectDelay == 1000

NewSignal ==
    [ws |-> "null",              \* this.ws: "null", or the socket's state:
                                 \*     "connecting", "open", "closed"
     reconnectAttempts |-> 0,
     reconnectDelay |-> InitialReconnectDelay,
     currentRoomId |-> "null",   \* "null", "" or a room id
     currentUserId |-> "null",   \* "null", "" or a user id
     timers |-> 0,               \* pending setTimeout(() => this.connect())
     stale |-> 0,                \* sockets closed by disconnect() whose close event
                                 \*     is still to come
     tries |-> 0,                \* connect() calls made by timers since the last open
     scheduled |-> 0,            \* timers set so far
     joined |-> FALSE]           \* a join-room went out and no leave-room since:
                                 \*     the caller is in a call

SignalIdle ==
    /\ signal = NewSignal
    /\ signalEvent = [type |-> "new"]
    /\ signalDid = <<>>

\* the versions of the App that drive the negotiation: src/App.tsx, where the
\* hook's own handleSignalingMessage handles the messages, and unnamed/part_000,
\* where the App's handleSignalingMessage does
Apps == {"App.tsx", "part_000"}

\* the peers a negotiation message can come from
Peers == {"p", "q"}

\* A peer connection just created by createPeerConnection, nothing suspended.
\* host: this client is the one the call makes the initiator (App.tsx: the
\* isInitiator flag of its messages; part_000: it created the room, isHost).
NewNego(app, host) ==
    [app |-> app,
     host |-> host,
     room |-> IF app = "part_000" THEN "R1" ELSE "null",
                           \* currentRoomRef.current: part_000 sets it in
                           \*     joinRoom(roomId), App.tsx leaves it to the
                           \*     message handler
     sig |-> "stable",     \* pc.signalingState
     chain |-> <<>>,       \* the operations issued on the peer connection and not
                           \*     settled, in the order issued (the browser runs
                           \*     them in that order): [op, type, from]
     sentOut |-> <<>>,     \* the descriptions sent to the peer, in order:
                           \*     [type, to, from]
     errors |-> 0,         \* rejections caught and logged
     handled |-> 0]        \* negotiation messages handled

NegoIdle ==
    /\ nego = NewNego("App.tsx", TRUE)
    /\ negoEvent = [type |-> "created"]

\* signalingService and realSignalingService as the modules create them, and
\* the App's one subscription (part_000, signalingService.on('message', ...))
NewDispatch ==
    [isSimulated |-> FALSE,
     socket |-> "null",      \* realSignalingService.socket: "null", or the state
                             \*     of the socket.io socket: "connecting",
                             \*     "connected", "down" (lost, reconnecting)
     listeners |-> 0,        \* setupEventListeners() runs on that socket: each
                             \*     adds one listener per server event
     forwarders |-> 0,       \* 'message' handlers on realSignalingService that
                             \*     forward to signalingService
     delivered |-> 0,        \* how often the App's subscriber was called for
                             \*     the last server message
     switches |-> 0,         \* setSimulationMode calls so far
     connects |-> 0]         \* 'connect' events so far

DispatchIdle ==
    /\ dispatch = NewDispatch
    /\ dispatchEvent = [type |-> "new"]

Init == ServerInit /\ OrderIdle /\ ClientIdle /\ SignalIdle /\ NegoIdle /\ DispatchIdle

\* ------------------------------------------------- server/server.js (io)

\* socket.to(roomId): every socket of the socket.io room except the sender
IoTo(ad, r, c) == SeqWithout(ad[r], c)

\* the payload object of a relayed event: { offer | answer | candidate, from }
IoPayload(kind, p, from) ==
    CASE kind = "offer" -> [type |-> kind, offer |-> p, from |-> from]
      [] kind = "answer" -> [type |-> kind, answer |-> p, from |-> from]
      [] kind = "ice-candidate" -> [type |-> kind, candidate |-> p, from |-> from]

\* socket.on('join-room')
IoJoinRoom(c, r, u) ==
    /\ server = "io"
    /\ readyState[c] = "OPEN"
    /\ lastEvent' = [type |-> "join-room", conn |-> c, roomId |-> r, userId |-> u]
    /\ LET created == IF HasRoom(rooms, r) THEN rooms ELSE SetRoom(rooms, r, {})
       IN IF Cardinality(created[r]) >= 2
          THEN /\ rooms' = created
               /\ sent' = <<[to |-> c,
                             msg |-> [type |-> "join-error", message |-> "Salle pleine"]]>>
               /\ UNCHANGED ioVars
          ELSE LET room == created[r] \cup {c}
                   ad == [adapter EXCEPT ![r] = SeqAdd(@, c)]
               IN /\ rooms' = SetRoom(created, r, room)
                  /\ adapter' = ad
                  /\ socketUserId' = [socketUserId EXCEPT ![c] = u]
                  /\ socketRoomId' = [socketRoomId EXCEPT ![c] = r]
                  /\ sent' = <<[to |-> c,
                                msg |-> [type |-> "joined-room", roomId |-> r, userId |-> u,
                                         isHost |-> (Cardinality(room) = 1)]]>>
                       \o (IF Cardinality(room) = 2
                           THEN Sends(IoTo(ad, r, c), [type |-> "user-joined", userId |-> u])
                           ELSE <<>>)
    /\ UNCHANGED <<server, readyState, connections>>

\* socket.on('offer'), socket.on('answer'), socket.on('ice-candidate')
IoRelay(c, kind, r, p) ==
    /\ server = "io"
    /\ readyState[c] = "OPEN"
    /\ lastEvent' = [type |-> kind, conn |-> c, roomId |-> r, payload |-> p]
    /\ sent' = Sends(IoTo(adapter, r, c), IoPayload(kind, p, socketUserId[c]))
    /\ UNCHANGED <<server, readyState, rooms, socketUserId, socketRoomId, adapter,
                   connections>>

\* A 'disconnect' handler that updates rooms as the real one does but tells
\* nobody: C5 must tell it from the real one.
IoDisconnectEffect_Silent(c) ==
    LET rid == socketRoomId[c]
    IN [adapter |-> [r \in RoomIds |-> SeqWithout(adapter[r], c)],
        sent |-> <<>>,
        rooms |-> IF rid # Undefined /\ HasRoom(rooms, rid)
                  THEN IF rooms[rid] \ {c} = {}
                       THEN DeleteRoom(rooms, rid)
                       ELSE SetRoom(rooms, rid, rooms[rid] \ {c})
                  ELSE rooms]

\* What the 'disconnect' handler does to rooms and what it emits. socket.io has
\* taken the socket out of all its rooms (adapter) before the handler runs.
IoDisconnectEffect(c) ==
    LET ad == [r \in RoomIds |-> SeqWithout(adapter[r], c)]
        rid == socketRoomId[c]
    IN IF rid # Undefined /\ HasRoom(rooms, rid)
       THEN LET room == rooms[rid] \ {c}
            IN [adapter |-> ad,
                sent |-> Sends(IoTo(ad, rid, c),
                               [type |-> "user-left", userId |-> socketUserId[c]]),
                rooms |-> IF Cardinality(room) = 0
                          THEN DeleteRoom(rooms, rid)
                          ELSE SetRoom(rooms, rid, room)]
       ELSE [adapter |-> ad, sent |-> <<>>, rooms |-> rooms]

\* socket.on('disconnect'). No handler runs for the socket afterwards, and the
\* socket object (its userId and roomId) is dropped.
IoDisconnect(c) ==
    /\ server = "io"
    /\ readyState[c] = "OPEN"
    /\ readyState' = [readyState EXCEPT ![c] = "CLOSED"]
    /\ lastEvent' = [type |-> "disconnect", conn |-> c]
    /\ adapter' = IoDisconnectEffect(c).adapter
    /\ sent' = IoDisconnectEffect(c).sent
    /\ rooms' = IoDisconnectEffect(c).rooms
    /\ socketUserId' = [socketUserId EXCEPT ![c] = Undefined]
    /\ socketRoomId' = [socketRoomId EXCEPT ![c] = Undefined]
    /\ UNCHANGED <<server, connections>>

\* What the 'leave-room' handler does to rooms and what it emits.
IoLeaveRoomEffect(c) ==
    LET rid == socketRoomId[c]
    IN IF rid # Undefined /\ HasRoom(rooms, rid)
       THEN LET room == rooms[rid] \ {c}
            IN [adapter |-> [adapter EXCEPT ![rid] = SeqWithout(@, c)],
                sent |-> Sends(IoTo(adapter, rid, c),
                               [type |-> "user-left", userId |-> socketUserId[c]]),
                rooms |-> IF Cardinality(room) = 0
                          THEN DeleteRoom(rooms, rid)
                          ELSE SetRoom(rooms, rid, room)]
       ELSE [adapter |-> adapter, sent |-> <<>>, rooms |-> rooms]

\* socket.on('leave-room')
IoLeaveRoom(c) ==
    /\ server = "io"
    /\ readyState[c] = "OPEN"
    /\ lastEvent' = [type |-> "leave-room", conn |-> c]
    /\ adapter' = IoLeaveRoomEffect(c).adapter
    /\ sent' = IoLeaveRoomEffect(c).sent
    /\ rooms' = IoLeaveRoomEffect(c).rooms
    /\ UNCHANGED <<server, readyState, socketUserId, socketRoomId, connections>>

\* ---------------------------------------- server/signalingServer.js (ws)

\* connections.has(ws) / connections.get(ws)
HasConnection(cs, c) == \E i \in 1..Len(cs) : cs[i].ws = c

GetConnection(cs, c) == cs[CHOOSE i \in 1..Len(cs) : cs[i].ws = c]

\* connections.set(ws, {userId, roomId}): a key already present keeps its place
SetConnection(cs, c, u, r) ==
    IF HasConnection(cs, c)
    THEN [i \in 1..Len(cs) |->
            IF cs[i].ws = c THEN [ws |-> c, userId |-> u, roomId |-> r] ELSE cs[i]]
    ELSE Append(cs, [ws |-> c, userId |-> u, roomId |-> r])

\* connections.delete(ws)
RECURSIVE DeleteConnection(_, _)
DeleteConnection(cs, c) ==
    IF cs = <<>> THEN <<>>
    ELSE IF Head(cs).ws = c THEN DeleteConnection(Tail(cs), c)
    ELSE <<Head(cs)>> \o DeleteConnection(Tail(cs), c)

\* broadcastToRoom(roomId, message, excludeUserId): the sends it makes
RECURSIVE BroadcastLoop(_, _, _, _, _)
BroadcastLoop(cs, rs, roomId, message, excludeUserId) ==
    IF cs = <<>> THEN <<>>
    ELSE (IF /\ Head(cs).roomId = roomId
             /\ Head(cs).userId # excludeUserId
             /\ rs[Head(cs).ws] = "OPEN"
          THEN <<[to |-> Head(cs).ws, msg |-> message]>>
          ELSE <<>>)
         \o BroadcastLoop(Tail(cs), rs, roomId, message, excludeUserId)

broadcastToRoom(m, cs, rs, roomId, message, excludeUserId) ==
    IF ~HasRoom(m, roomId) THEN <<>>
    ELSE BroadcastLoop(cs, rs, roomId, message, excludeUserId)

\* handleJoinRoom(ws, data)
handleJoinRoom(c, r, u) ==
    /\ server = "ws"
    /\ readyState[c] = "OPEN"
    /\ lastEvent' = [type |-> "join-room", conn |-> c, roomId |-> r, userId |-> u]
    /\ LET created == IF HasRoom(rooms, r) THEN rooms ELSE SetRoom(rooms, r, {})
       IN IF Cardinality(created[r]) >= 2
          THEN /\ rooms' = created
               /\ sent' = <<[to |-> c,
                             msg |-> [type |-> "error", message |-> "Salle pleine"]]>>
               /\ UNCHANGED connections
          ELSE LET room == created[r] \cup {u}
                   rms == SetRoom(created, r, room)
                   cs == SetConnection(connections, c, u, r)
               IN /\ rooms' = rms
                  /\ connections' = cs
                  /\ sent' = <<[to |-> c,
                                msg |-> [type |-> "joined-room", roomId |-> r, userId |-> u]]>>
                       \o (IF Cardinality(room) = 2
                           THEN broadcastToRoom(rms, cs, readyState, r,
                                    [type |-> "user-joined", roomId |-> r, userId |-> u], u)
                           ELSE <<>>)
    /\ UNCHANGED <<server, readyState, socketUserId, socketRoomId, adapter>>

\* A handleLeaveRoom that deletes the room whether or not somebody is left in
\* it: C6 must tell it from the real one.
handleLeaveRoomEffect_DeletesRoom(c) ==
    IF ~HasConnection(connections, c)
    THEN [rooms |-> rooms, connections |-> connections, sent |-> <<>>]
    ELSE LET connection == GetConnection(connections, c)
         IN [sent |-> broadcastToRoom(rooms, connections, readyState, connection.roomId,
                          [type |-> "user-left", roomId |-> connection.roomId,
                           userId |-> connection.userId], connection.userId),
             rooms |-> DeleteRoom(rooms, connection.roomId),
             connections |-> DeleteConnection(connections, c)]

\* handleLeaveRoom(ws, data): what it does to rooms and connections, what it sends
handleLeaveRoomEffect(c) ==
    IF ~HasConnection(connections, c)
    THEN [rooms |-> rooms, connections |-> connections, sent |-> <<>>]
    ELSE LET connection == GetConnection(connections, c)
             userId == connection.userId
             roomId == connection.roomId
         IN IF HasRoom(rooms, roomId)
            THEN LET room == rooms[roomId] \ {userId}
                     rms == SetRoom(rooms, roomId, room)
                 IN [sent |-> broadcastToRoom(rms, connections, readyState, roomId,
                                  [type |-> "user-left", roomId |-> roomId,
                                   userId |-> userId], userId),
                     rooms |-> IF Cardinality(room) = 0
                               THEN DeleteRoom(rms, roomId)
                               ELSE rms,
                     connections |-> DeleteConnection(connections, c)]
            ELSE [sent |-> <<>>, rooms |-> rooms,
                  connections |-> DeleteConnection(connections, c)]

\* handleLeaveRoom(ws, data), on a 'leave-room' message
handleLeaveRoom(c) ==
    /\ server = "ws"
    /\ readyState[c] = "OPEN"
    /\ lastEvent' = [type |-> "leave-room", conn |-> c]
    /\ rooms' = handleLeaveRoomEffect(c).rooms
    /\ connections' = handleLeaveRoomEffect(c).connections
    /\ sent' = handleLeaveRoomEffect(c).sent
    /\ UNCHANGED <<server, readyState, socketUserId, socketRoomId, adapter>>

\* the payload-carrying message handleOffer / handleAnswer / handleIceCandidate build
WsPayload(kind, p, roomId) == [type |-> kind, data |-> p, roomId |-> roomId]

\* handleOffer(ws, data), handleAnswer(ws, data), handleIceCandidate(ws, data)
handleRelay(c, kind, p) ==
    /\ server = "ws"
    /\ readyState[c] = "OPEN"
    /\ lastEvent' = [type |-> kind, conn |-> c, payload |-> p]
    /\ sent' = IF ~HasConnection(connections, c) THEN <<>>
               ELSE LET connection == GetConnection(connections, c)
                    IN broadcastToRoom(rooms, connections, readyState, connection.roomId,
                           WsPayload(kind, p, connection.roomId), connection.userId)
    /\ UNCHANGED <<server, readyState, rooms, socketUserId, socketRoomId, adapter,
                   connections>>

\* The peer's close frame arrives: the WebSocket is CLOSING (readyState 2) until
\* its 'close' event is emitted; it delivers no further message.
WsClosing(c) ==
    /\ server = "ws"
    /\ readyState[c] = "OPEN"
    /\ readyState' = [readyState EXCEPT ![c] = "CLOSING"]
    /\ lastEvent' = [type |-> "closing", conn |-> c]
    /\ sent' = <<>>
    /\ UNCHANGED <<server, rooms, socketUserId, socketRoomId, adapter, connections>>

\* handleDisconnection(ws): handleLeaveRoom when the socket has a connections entry
handleDisconnectionEffect(c) ==
    IF HasConnection(connections, c)
    THEN handleLeaveRoomEffect(c)
    ELSE [rooms |-> rooms, connections |-> connections, sent |-> <<>>]

\* ws.on('close'): handleDisconnection(ws)
handleDisconnection(c) ==
    /\ server = "ws"
    /\ readyState[c] \in {"OPEN", "CLOSING"}
    /\ readyState' = [readyState EXCEPT ![c] = "CLOSED"]
    /\ lastEvent' = [type |-> "close", conn |-> c]
    /\ rooms' = handleDisconnectionEffect(c).rooms
    /\ connections' = handleDisconnectionEffect(c).connections
    /\ sent' = handleDisconnectionEffect(c).sent
    /\ UNCHANGED <<server, socketUserId, socketRoomId, adapter>>

\* ------------------------------------------------------- specification

\* What the clients are told about their role: the isHost of the joined-room
\* reply a connection got for the room it is in ("true" / "false", Undefined
\* when the reply carries none), kept while the server lists the connection in
\* a room.
JoinedRoomReplies ==
    isHost' = [c \in Conns |->
        LET replies == SelectSeq(sent', LAMBDA m : m.to = c /\ m.msg.type = "joined-room")
        IN IF replies # <<>>
           THEN IF "isHost" \in DOMAIN replies[1].msg
                THEN (IF replies[1].msg.isHost THEN "true" ELSE "false")
                ELSE Undefined
           ELSE IF \/ \E r \in DOMAIN rooms' : server = "io" /\ c \in rooms'[r]
                   \/ HasConnection(connections', c)
                THEN isHost[c]
                ELSE Undefined]

Next ==
    \/ \E c \in Conns, r \in RoomIds :
          IoJoinRoom(c, r, UserIdOf(c)) /\ UNCHANGED <<orderVars, roleVars, clientVars, signalVars, negoVars, dispatchVars>>
    \/ \E c \in Conns, k \in Kinds, r \in RoomIds, p \in Payloads :
          IoRelay(c, k, r, p) /\ UNCHANGED <<orderVars, roleVars, clientVars, signalVars, negoVars, dispatchVars>>
    \/ \E c \in Conns : IoDisconnect(c) /\ UNCHANGED <<orderVars, roleVars, clientVars, signalVars, negoVars, dispatchVars>>
    \/ \E c \in Conns : IoLeaveRoom(c) /\ UNCHANGED <<orderVars, roleVars, clientVars, signalVars, negoVars, dispatchVars>>
    \/ \E c \in Conns, r \in RoomIds :
          handleJoinRoom(c, r, UserIdOf(c)) /\ UNCHANGED <<orderVars, roleVars, clientVars, signalVars, negoVars, dispatchVars>>
    \/ \E c \in Conns, k \in Kinds, p \in Payloads :
          handleRelay(c, k, p) /\ UNCHANGED <<orderVars, roleVars, clientVars, signalVars, negoVars, dispatchVars>>
    \/ \E c \in Conns : handleLeaveRoom(c) /\ UNCHANGED <<orderVars, roleVars, clientVars, signalVars, negoVars, dispatchVars>>
    \/ \E c \in Conns : WsClosing(c) /\ UNCHANGED <<orderVars, roleVars, clientVars, signalVars, negoVars, dispatchVars>>
    \/ \E c \in Conns : handleDisconnection(c) /\ UNCHANGED <<orderVars, roleVars, clientVars, signalVars, negoVars, dispatchVars>>

Spec == Init /\ [][Next]_vars

\* ------------------------------------ the ws relay with its deliveries logged

\* ws.send on an open WebSocket: the message goes behind those sent before
\* (one TCP stream per WebSocket)
Enqueue_Front(q, e) == <<e>> \o q

Enqueue(q, e) == Append(q, e)

\* the sends of one handler run, entered in the recipients' logs in the order
\* broadcastToRoom made them; n is the arrival rank of the message handled
RECURSIVE Deliver(_, _, _)
Deliver(ib, s, n) ==
    IF s = <<>> THEN ib
    ELSE Deliver([ib EXCEPT ![Head(s).to] =
                     Enqueue(@, [seq |-> n, type |-> Head(s).msg.type])],
                 Tail(s), n)

\* the offers, answers and candidates among the sends of a handler run
Negotiation(s) == SelectSeq(s, LAMBDA m : m.msg.type \in Kinds)

\* ws.on('message') runs one handler to its end before the next message is
\* read: the message gets its arrival rank, its sends are logged
Record ==
    /\ received' = IF lastEvent'.type \in Kinds THEN received + 1 ELSE received
    /\ inbox' = Deliver(inbox, Negotiation(sent'), received')

OrderInit == Init /\ server = "ws"

\* the ordering guarantee is about the messages of a single room
OrderRooms == {"R1"}

OrderNext ==
    \/ \E c \in Conns, r \in OrderRooms : handleJoinRoom(c, r, UserIdOf(c)) /\ Record /\ UNCHANGED <<roleVars, clientVars, signalVars, negoVars, dispatchVars>>
    \/ \E c \in Conns, k \in Kinds, p \in Payloads :
          received < MaxRelayed /\ handleRelay(c, k, p) /\ Record /\ UNCHANGED <<roleVars, clientVars, signalVars, negoVars, dispatchVars>>
    \/ \E c \in Conns : handleLeaveRoom(c) /\ Record /\ UNCHANGED <<roleVars, clientVars, signalVars, negoVars, dispatchVars>>
    \/ \E c \in Conns : WsClosing(c) /\ Record /\ UNCHANGED <<roleVars, clientVars, signalVars, negoVars, dispatchVars>>
    \/ \E c \in Conns : handleDisconnection(c) /\ Record /\ UNCHANGED <<roleVars, clientVars, signalVars, negoVars, dispatchVars>>

SpecOrder == OrderInit /\ [][OrderNext]_vars

\* ------------------------------- server.js with the roles it tells its clients

RolesInit == Init /\ server = "io"

RolesNext ==
    \/ \E c \in Conns, r \in RoomIds :
          IoJoinRoom(c, r, UserIdOf(c)) /\ JoinedRoomReplies
              /\ UNCHANGED <<orderVars, clientVars, signalVars, negoVars, dispatchVars>>
    \/ \E c \in Conns, k \in Kinds, r \in RoomIds, p \in Payloads :
          IoRelay(c, k, r, p) /\ JoinedRoomReplies
              /\ UNCHANGED <<orderVars, clientVars, signalVars, negoVars, dispatchVars>>
    \/ \E c \in Conns : IoDisconnect(c) /\ JoinedRoomReplies
              /\ UNCHANGED <<orderVars, clientVars, signalVars, negoVars, dispatchVars>>
    \/ \E c \in Conns : IoLeaveRoom(c) /\ JoinedRoomReplies
              /\ UNCHANGED <<orderVars, clientVars, signalVars, negoVars, dispatchVars>>

SpecRoles == RolesInit /\ [][RolesNext]_vars

\* ------------------------------- the browser client (hooks/useWebRTC.ts, App.tsx)
\* Handlers are modelled as the functions the source defines; one action is one
\* browser task: the handlers an event runs, then the continuations of the
\* promises they awaited.

\* the states App.tsx treats as the end of the connection
EndStates == {"disconnected", "failed", "closed"}
\* the states a live peer connection reports through its two callbacks
PcStates == {"connected", "disconnected", "failed"}

\* a task in progress: the client so far, what was done so far, and whether a
\* leaveRoom() is suspended at its await (it clears currentRoomRef afterwards)
Task(st) == [st |-> st, did |-> <<>>, clear |-> FALSE]

Op(name) == [op |-> name, state |-> "-"]

Do(x, o) == [x EXCEPT !.did = Append(@, o)]

\* useWebRTC.ts leaveRoom, up to its await: signalingService.leaveRoom emits the
\* leave message when the socket is connected
leaveRoom(x) ==
    IF x.st.room # "null" /\ x.st.userId
    THEN LET y == IF x.st.transport
                  THEN [Do(x, Op("leave")) EXCEPT !.st.leaves = @ + 1]
                  ELSE x
         IN [y EXCEPT !.clear = TRUE]
    ELSE x

\* useWebRTC.ts cleanup
cleanup(x) ==
    LET a == leaveRoom(x)
        b == IF a.st.local # "null"
             THEN [Do(a, Op("stopTracks")) EXCEPT !.st.local = "null", !.st.stops = @ + 1]
             ELSE a
        c == IF b.st.pc # "null"
             THEN [Do(b, Op("closePc")) EXCEPT !.st.pc = "null", !.st.rd = FALSE,
                                             !.st.sig = "stable", !.st.closes = @ + 1]
             ELSE b
    IN [Do(c, Op("clearRemote")) EXCEPT !.st.remote = "null"]

\* onWebRtcConnectionStateChangeRef.current(state), which is App.tsx's
\* handleWebRtcConnectionStateChange; by names the caller
Report(x, state, by) ==
    LET y == [Do(x, [op |-> "report", state |-> state])
                EXCEPT !.st.reports = IF state \in EndStates THEN @ + 1 ELSE @]
    IN IF state = "connected"
       THEN [y EXCEPT !.st.ui = "connected", !.st.connectedBy = by]
       ELSE IF state \in EndStates
            THEN [y EXCEPT !.st.ui = IF @ # "connecting" THEN "disconnected" ELSE @,
                           !.st.error = TRUE]
            ELSE y

\* App.tsx cleanup
AppCleanup(x) == [cleanup(x) EXCEPT !.st.ui = "disconnected", !.st.error = FALSE]

\* the 'user-left' message: the hook's handler, then App.tsx's (handlePeerLeft)
UserLeftHandlers(x) == AppCleanup(Report(cleanup(x), "disconnected", "user-left"))

\* the end of the task: suspended leaveRoom() calls resume and clear the room
Settle(x) == IF x.clear THEN [x.st EXCEPT !.room = "null"] ELSE x.st

Commit(x, ev) ==
    /\ client' = Settle(x)
    /\ did' = x.did
    /\ clientEvent' = ev

\* the peer connection in peerConnectionRef has a local description: it made an
\* offer, or it answered one (createAnswer sets both descriptions)
HasLocalDescription(st) == st.pc = "open" /\ (st.sig = "have-local-offer" \/ st.rd)

\* App.tsx createRoom / joinRoom, up to the first await: the call state becomes
\* 'connecting' and createPeerConnection waits for the ICE servers. The counters
\* of the record start again with the attempt.
StartCall ==
    /\ client.ui = "disconnected"
    /\ client.starting = "no"
    /\ Commit(Task([client EXCEPT !.ui = "connecting", !.error = FALSE,
                                 !.starting = "ice",
                                 !.arrived = 0, !.applied = <<>>, !.lost = <<>>,
                                 !.stops = 0, !.closes = 0, !.leaves = 0,
                                 !.reports = 0, !.connectedBy = "none"]),
              [type |-> "start"])

\* createPeerConnection after its await: the new RTCPeerConnection is stored in
\* peerConnectionRef, whatever the ref held; getUserMedia then waits for the
\* microphone
PcCreated ==
    /\ client.starting = "ice"
    /\ Commit(Do(Task([client EXCEPT !.pc = "open", !.rd = FALSE, !.sig = "stable",
                                    !.starting = "media",
                                    !.replaced = @ \/ HasLocalDescription(client)]),
                 Op("createPc")),
              [type |-> "pc-created"])

\* the catch block of createRoom / joinRoom
StartFailed_NoCleanup(x) == [x EXCEPT !.st.ui = "disconnected", !.st.error = TRUE]

StartFailed(x) == cleanup([x EXCEPT !.st.ui = "disconnected", !.st.error = TRUE])

\* getUserMedia after its await, and the rest of createRoom / joinRoom. media:
\* the microphone is granted. signalingService.joinRoom returns false when the
\* socket is not connected, and createRoom throws.
MediaResult(media) ==
    /\ client.starting = "media"
    /\ LET x == Task([client EXCEPT !.starting = "no"])
           y == [Do(x, Op("getUserMedia")) EXCEPT !.st.local = "live"]
       IN Commit(IF ~media THEN StartFailed(x)
                 ELSE IF client.transport THEN Do(y, Op("join"))
                 ELSE StartFailed(y),
                 [type |-> "media", granted |-> media])

\* useWebRTC.ts createOffer: setLocalDescription(offer), then the offer is sent
createOffer(x) ==
    LET y == [Do(x, Op("setLocal")) EXCEPT !.st.sig = "have-local-offer"]
    IN IF y.st.room # "null" /\ y.st.transport THEN Do(y, Op("sendOffer")) ELSE y

\* useWebRTC.ts createAnswer: setRemoteDescription(offer) is refused by a peer
\* connection that has an offer of its own pending
createAnswer(x) ==
    IF x.st.sig # "stable" THEN Do(x, Op("error"))
    ELSE LET y == [Do(Do(x, Op("setRemote")), Op("setLocal")) EXCEPT !.st.rd = TRUE]
         IN IF y.st.room # "null" /\ y.st.transport THEN Do(y, Op("sendAnswer")) ELSE y

\* useWebRTC.ts handleAnswer: setRemoteDescription(answer) needs a pending offer
handleAnswer(x) ==
    IF x.st.sig # "have-local-offer" THEN Do(x, Op("error"))
    ELSE [Do(x, Op("setRemote")) EXCEPT !.st.rd = TRUE, !.st.sig = "stable"]

\* useWebRTC.ts addIceCandidate: without peer connection the candidate is given
\* up; pc.addIceCandidate rejects while there is no remote description
addIceCandidate(x, cand) ==
    IF x.st.pc = "null"
    THEN [Do(x, Op("warn")) EXCEPT !.st.lost = Append(@, [cand |-> cand, why |-> "no-pc"])]
    ELSE IF x.st.rd
         THEN [Do(x, Op("addCandidate")) EXCEPT !.st.applied = Append(@, cand)]
         ELSE [Do(x, Op("error")) EXCEPT
                  !.st.lost = Append(@, [cand |-> cand, why |-> "rejected"])]

\* handleSignalingMessage, case 'user-joined'
OnUserJoined(isInitiator) ==
    /\ client.transport
    /\ LET x == Task(client)
       IN Commit(IF client.pc = "null" THEN x
              ELSE IF isInitiator THEN createOffer([x EXCEPT !.st.room = "set"])
              ELSE [x EXCEPT !.st.room = "set"],
              [type |-> "user-joined", isInitiator |-> isInitiator])

\* handleSignalingMessage, case 'offer'
OnOffer ==
    /\ client.transport
    /\ LET x == Task(client)
       IN Commit(IF client.pc = "null" THEN Do(x, Op("warn"))
              ELSE createAnswer([x EXCEPT !.st.room = "set"]),
              [type |-> "offer"])

\* handleSignalingMessage, case 'answer'
OnAnswer ==
    /\ client.transport
    /\ LET x == Task(client)
       IN Commit(IF client.pc = "null" THEN Do(x, Op("warn")) ELSE handleAnswer(x),
              [type |-> "answer"])

\* handleSignalingMessage, case 'ice-candidate'; candidates are numbered in
\* arrival order
OnIceCandidate ==
    /\ client.transport
    /\ client.arrived < MaxCandidates
    /\ LET cand == client.arrived + 1
       IN Commit(addIceCandidate(Task([client EXCEPT !.arrived = cand]), cand),
                 [type |-> "ice-candidate", cand |-> cand])

\* handleSignalingMessage, case 'user-left' (hook), then App.tsx's handler
OnUserLeft ==
    /\ client.transport
    /\ client.reports < MaxReports
    /\ Commit(UserLeftHandlers(Task(client)), [type |-> "user-left"])

\* pc.oniceconnectionstatechange: the callback first, then cleanup on
\* 'disconnected' and 'failed'
OnIceConnectionState(state) ==
    /\ client.pc = "open" /\ client.rd
    /\ client.reports < MaxReports
    /\ LET x == Report(Task(client), state, "ice")
       IN Commit(IF state \in {"disconnected", "failed"} THEN cleanup(x) ELSE x,
                 [type |-> "iceconnectionstatechange", state |-> state])

\* pc.onconnectionstatechange
OnConnectionState(state) ==
    /\ client.pc = "open" /\ client.rd
    /\ client.reports < MaxReports
    /\ LET x == Report(Task(client), state, "aggregate")
       IN Commit(IF state \in {"disconnected", "failed"} THEN cleanup(x) ELSE x,
                 [type |-> "connectionstatechange", state |-> state])

\* pc.onicecandidate with a candidate: signalingService.sendIceCandidate emits it
\* when the socket is connected; without current room a warning is logged
onicecandidate(x) ==
    IF x.st.room # "null"
    THEN IF x.st.transport THEN Do(x, Op("sendCandidate")) ELSE x
    ELSE Do(x, Op("warn"))

\* A peer connection that has a local description gathers a candidate. of: the
\* peer connection in peerConnectionRef ("current") or one that was overwritten
\* there without being closed ("replaced"); all share the handler's refs.
OnLocalCandidate(of) ==
    /\ IF of = "current" THEN HasLocalDescription(client) ELSE client.replaced
    /\ Commit(onicecandidate(Task(client)), [type |-> "icecandidate", of |-> of])

\* pc.ontrack
OnTrack ==
    /\ client.pc = "open" /\ client.rd
    /\ Commit([Task(client) EXCEPT !.st.remote = "live"], [type |-> "track"])

\* App.tsx disconnect: the hang-up button, shown while connecting or connected
Disconnect ==
    /\ client.ui \in {"connecting", "connected"}
    /\ LET x == Task(client)
       IN Commit(AppCleanup(IF client.pc # "null" THEN leaveRoom(x) ELSE x),
                 [type |-> "hang-up"])

\* signalingService.ts, socket 'disconnect': a user-left is dispatched to the
\* subscribers
SocketDisconnect ==
    /\ client.transport
    /\ client.reports < MaxReports
    /\ Commit(UserLeftHandlers(Task([client EXCEPT !.transport = FALSE])),
              [type |-> "socket-disconnect"])

\* socket 'connect': App.tsx's listener passes the socket id to the hook
SocketConnect ==
    /\ ~client.transport
    /\ Commit(Task([client EXCEPT !.transport = TRUE, !.userId = TRUE]),
              [type |-> "socket-connect"])

ClientInit ==
    /\ ServerInit /\ server = "ws"
    /\ OrderIdle
    /\ \E userId \in BOOLEAN : client = NewClient(userId)
    /\ clientEvent = [type |-> "mount"]
    /\ did = <<>>
    /\ SignalIdle
    /\ NegoIdle
    /\ DispatchIdle

ClientNext ==
    \/ StartCall /\ UNCHANGED <<serverVars, orderVars, roleVars, signalVars, negoVars, dispatchVars>>
    \/ PcCreated /\ UNCHANGED <<serverVars, orderVars, roleVars, signalVars, negoVars, dispatchVars>>
    \/ \E media \in BOOLEAN : MediaResult(media) /\ UNCHANGED <<serverVars, orderVars, roleVars, signalVars, negoVars, dispatchVars>>
    \/ \E i \in BOOLEAN : OnUserJoined(i) /\ UNCHANGED <<serverVars, orderVars, roleVars, signalVars, negoVars, dispatchVars>>
    \/ OnOffer /\ UNCHANGED <<serverVars, orderVars, roleVars, signalVars, negoVars, dispatchVars>>
    \/ OnAnswer /\ UNCHANGED <<serverVars, orderVars, roleVars, signalVars, negoVars, dispatchVars>>
    \/ OnIceCandidate /\ UNCHANGED <<serverVars, orderVars, roleVars, signalVars, negoVars, dispatchVars>>
    \/ OnUserLeft /\ UNCHANGED <<serverVars, orderVars, roleVars, signalVars, negoVars, dispatchVars>>
    \/ \E st \in PcStates : OnIceConnectionState(st) /\ UNCHANGED <<serverVars, orderVars, roleVars, signalVars, negoVars, dispatchVars>>
    \/ \E st \in PcStates : OnConnectionState(st) /\ UNCHANGED <<serverVars, orderVars, roleVars, signalVars, negoVars, dispatchVars>>
    \/ OnTrack /\ UNCHANGED <<serverVars, orderVars, roleVars, signalVars, negoVars, dispatchVars>>
    \/ \E of \in {"current", "replaced"} :
          OnLocalCandidate(of) /\ UNCHANGED <<serverVars, orderVars, roleVars, signalVars, negoVars, dispatchVars>>
    \/ Disconnect /\ UNCHANGED <<serverVars, orderVars, roleVars, signalVars, negoVars, dispatchVars>>
    \/ SocketDisconnect /\ UNCHANGED <<serverVars, orderVars, roleVars, signalVars, negoVars, dispatchVars>>
    \/ SocketConnect /\ UNCHANGED <<serverVars, orderVars, roleVars, signalVars, negoVars, dispatchVars>>

SpecClient == ClientInit /\ [][ClientNext]_vars

\* ------------------------------------- unnamed/part_002 (ws signaling client)

\* the room ids and user ids callers pass to joinRoom ('' is what App.tsx passes
\* while it has no id)
CallerRoomIds == {"", "R1", "R2"}
CallerUserIds == {"", "a"}

\* the relayed kinds a caller sends
Relayed == {"offer", "answer", "ice-candidate"}

\* a JavaScript truthiness test on an id
Truthy(id) == id # "null" /\ id # ""

\* a call or handler in progress: the service so far, what was done so far and
\* what is returned
Call(st) == [st |-> st, did |-> <<>>, returned |-> "undefined"]

\* part_002 send
send(x, message) ==
    IF x.st.ws = "open"
    THEN [Do(x, [op |-> "send", message |-> message]) EXCEPT !.returned = "true"]
    ELSE [Do(x, [op |-> "warn"]) EXCEPT !.returned = "false"]

\* part_002 joinRoom
joinRoom(x, roomId, userId) ==
    send([x EXCEPT !.st.currentRoomId = roomId, !.st.currentUserId = userId,
                   !.st.joined = @ \/ x.st.ws = "open"],
         [type |-> "join-room", roomId |-> roomId, userId |-> userId])

\* part_002 leaveRoom: the result of send is not returned
signalLeaveRoom(x, roomId, userId) ==
    [send(x, [type |-> "leave-room", roomId |-> roomId, userId |-> userId])
        EXCEPT !.st.currentRoomId = "null", !.st.currentUserId = "null",
               !.st.joined = FALSE, !.returned = "undefined"]

\* part_002 handleReconnect
handleReconnect_Unlimited(x) ==
    [Do(x, [op |-> "setTimeout", delay |-> x.st.reconnectDelay])
        EXCEPT !.st.reconnectAttempts = @ + 1,
               !.st.timers = @ + 1,
               !.st.scheduled = @ + 1,
               !.st.reconnectDelay = @ * 2]

handleReconnect(x) ==
    IF x.st.reconnectAttempts < maxReconnectAttempts
    THEN [Do(x, [op |-> "setTimeout", delay |-> x.st.reconnectDelay])
            EXCEPT !.st.reconnectAttempts = @ + 1,
                   !.st.timers = @ + 1,
                   !.st.scheduled = @ + 1,
                   !.st.reconnectDelay = @ * 2]
    ELSE Do(x, [op |-> "emit", message |-> [type |-> "error"]])

\* the end of a call or handler of the service
SignalCommit(x, ev) ==
    /\ signal' = x.st
    /\ signalDid' = x.did
    /\ signalEvent' = ev

\* the application calls connect(): once on a new service, and again after a
\* disconnect() once the closed socket's event and timer are through
connect ==
    /\ signal.ws = "null" /\ signal.timers = 0 /\ signal.stale = 0
    /\ SignalCommit(Call([signal EXCEPT !.ws = "connecting"]), [type |-> "connect"])

\* a reconnection timer fires: connect()
TimerFires ==
    /\ signal.timers > 0
    /\ SignalCommit(Call([signal EXCEPT !.ws = "connecting", !.timers = @ - 1,
                                        !.tries = @ + 1]),
                    [type |-> "timer"])

\* ws.onopen
WsOpen_NoRejoin ==
    /\ signal.ws = "connecting"
    /\ SignalCommit(Call([signal EXCEPT !.ws = "open", !.reconnectAttempts = 0,
                                        !.tries = 0]),
                    [type |-> "open"])

WsOpen ==
    /\ signal.ws = "connecting"
    /\ LET x == Call([signal EXCEPT !.ws = "open", !.reconnectAttempts = 0, !.tries = 0])
       IN SignalCommit(IF Truthy(signal.currentRoomId) /\ Truthy(signal.currentUserId)
                       THEN joinRoom(x, signal.currentRoomId, signal.currentUserId)
                       ELSE x,
                       [type |-> "open"])

\* a timer can still be set
CanSchedule ==
    signal.reconnectAttempts < maxReconnectAttempts => signal.scheduled < MaxScheduled

\* ws.onclose of the current socket: the connection failed or was lost
WsClose ==
    /\ signal.ws \in {"connecting", "open"}
    /\ CanSchedule
    /\ SignalCommit(handleReconnect(Call([signal EXCEPT !.ws = "closed"])),
                    [type |-> "close"])

\* ws.onclose of a socket that disconnect() closed
StaleClose ==
    /\ signal.stale > 0
    /\ CanSchedule
    /\ SignalCommit(handleReconnect(Call([signal EXCEPT !.stale = @ - 1])),
                    [type |-> "close"])

\* the end of a sender called by the application
CallCommit(x, service, kind) ==
    SignalCommit(x, [type |-> "call", service |-> service, kind |-> kind,
                     open |-> signal.ws = "open", returned |-> x.returned])

\* the application calls joinRoom
CallJoinRoom(roomId, userId) ==
    CallCommit(joinRoom(Call(signal), roomId, userId), "part_002", "join")

\* the application calls leaveRoom
CallLeaveRoom(roomId, userId) ==
    CallCommit(signalLeaveRoom(Call(signal), roomId, userId), "part_002", "leave")

\* the application calls sendOffer, sendAnswer or sendIceCandidate
CallSend(kind, roomId) ==
    CallCommit(send(Call(signal), [type |-> kind, roomId |-> roomId]), "part_002", kind)

\* the application calls disconnect(): one socket's close event at a time is
\* kept pending
disconnect ==
    /\ signal.ws # "null"
    /\ signal.stale = 0
    /\ LET x == Call(signal)
           y == IF Truthy(signal.currentRoomId) /\ Truthy(signal.currentUserId)
                THEN signalLeaveRoom(x, signal.currentRoomId, signal.currentUserId)
                ELSE x
       IN SignalCommit([y EXCEPT !.st.ws = "null",
                                 !.st.stale = IF signal.ws \in {"connecting", "open"}
                                              THEN @ + 1 ELSE @,
                                 !.returned = "undefined"],
                       [type |-> "disconnect"])

\* The senders of the two socket.io services, called while the transport is in
\* the state of the model's socket. connected: socket.connected.
\* services/realSignalingService.ts
realSender(x, kind, connected) ==
    IF kind = "join"
    THEN IF ~connected
         THEN [Do(x, [op |-> "throw"]) EXCEPT !.returned = "throws"]
         ELSE [Do(x, [op |-> "send", message |-> [type |-> "join-room"]])
                 EXCEPT !.returned = "pending"]
    ELSE IF connected
         THEN Do(x, [op |-> "send", message |-> [type |-> kind]])
         ELSE x

\* services/signalingService.ts (lines 102-144)
matchSender(x, kind, connected) ==
    IF kind \in {"join", "leave"}
    THEN IF ~connected
         THEN [Do(x, [op |-> "warn"]) EXCEPT
                  !.returned = IF kind = "join" THEN "false" ELSE "undefined"]
         ELSE [Do(x, [op |-> "send", message |->
                        [type |-> IF kind = "join" THEN "findMatch" ELSE "endCall"]])
                 EXCEPT !.returned = IF kind = "join" THEN "true" ELSE "undefined"]
    ELSE IF connected
         THEN Do(x, [op |-> "send", message |-> [type |-> kind]])
         ELSE x

Services == {"realSignalingService", "signalingService"}

CallOther(service, kind) ==
    LET connected == signal.ws = "open"
    IN CallCommit(IF service = "realSignalingService"
                  THEN realSender(Call(signal), kind, connected)
                  ELSE matchSender(Call(signal), kind, connected),
                  service, kind)

SignalInit ==
    /\ ServerInit /\ server = "ws"
    /\ OrderIdle
    /\ ClientIdle
    /\ SignalIdle
    /\ NegoIdle
    /\ DispatchIdle

SignalNext ==
    \/ connect /\ UNCHANGED <<serverVars, orderVars, roleVars, clientVars, negoVars, dispatchVars>>
    \/ TimerFires /\ UNCHANGED <<serverVars, orderVars, roleVars, clientVars, negoVars, dispatchVars>>
    \/ WsOpen /\ UNCHANGED <<serverVars, orderVars, roleVars, clientVars, negoVars, dispatchVars>>
    \/ WsClose /\ UNCHANGED <<serverVars, orderVars, roleVars, clientVars, negoVars, dispatchVars>>
    \/ StaleClose /\ UNCHANGED <<serverVars, orderVars, roleVars, clientVars, negoVars, dispatchVars>>
    \/ \E r \in CallerRoomIds, u \in CallerUserIds :
          CallJoinRoom(r, u) /\ UNCHANGED <<serverVars, orderVars, roleVars, clientVars, negoVars, dispatchVars>>
    \/ \E r \in CallerRoomIds, u \in CallerUserIds :
          CallLeaveRoom(r, u) /\ UNCHANGED <<serverVars, orderVars, roleVars, clientVars, negoVars, dispatchVars>>
    \/ \E k \in Relayed, r \in CallerRoomIds :
          CallSend(k, r) /\ UNCHANGED <<serverVars, orderVars, roleVars, clientVars, negoVars, dispatchVars>>
    \/ disconnect /\ UNCHANGED <<serverVars, orderVars, roleVars, clientVars, negoVars, dispatchVars>>
    \/ \E sv \in Services, k \in {"join", "leave"} \cup Relayed :
          CallOther(sv, k) /\ UNCHANGED <<serverVars, orderVars, roleVars, clientVars, negoVars, dispatchVars>>

SpecSignal == SignalInit /\ [][SignalNext]_vars

\* ------------------------- hooks/useWebRTC.ts, the awaits of the negotiation

\* an operation issued on the peer connection; its caller is suspended at await
Issue(n, op, type, from) ==
    [n EXCEPT !.chain = Append(@, [op |-> op, type |-> type, from |-> from])]

\* the browser accepts the operation in signalingState sig
Accepts(sig, o) ==
    CASE o.op = "createOffer" -> TRUE
      [] o.op = "createAnswer" -> sig = "have-remote-offer"
      [] o.op = "setLocal" /\ o.type = "offer" -> sig \in {"stable", "have-local-offer"}
      [] o.op = "setLocal" /\ o.type = "answer" -> sig = "have-remote-offer"
      [] o.op = "setRemote" /\ o.type = "offer" -> sig \in {"stable", "have-remote-offer"}
      [] o.op = "setRemote" /\ o.type = "answer" -> sig = "have-local-offer"

\* the signalingState after the operation
After(sig, o) ==
    CASE o.op \in {"createOffer", "createAnswer"} -> sig
      [] o.op = "setLocal" /\ o.type = "offer" -> "have-local-offer"
      [] o.op = "setRemote" /\ o.type = "offer" -> "have-remote-offer"
      [] OTHER -> "stable"

\* signalingService.sendOffer / sendAnswer from createOffer / createAnswer: the
\* message goes to currentRoomRef.current as it is when the send runs; nothing
\* is sent when it is not set
SendDescription(n, o) ==
    IF n.room = "null" THEN n
    ELSE [n EXCEPT !.sentOut = Append(@, [type |-> o.type, to |-> n.room, from |-> o.from])]

\* what the suspended caller does when its operation resolved: the rest of
\* createOffer, createAnswer or handleAnswer up to the next await
Resume(n, o) ==
    CASE o.op = "createOffer" -> Issue(n, "setLocal", "offer", o.from)
      [] o.op = "createAnswer" -> Issue(n, "setLocal", "answer", o.from)
      [] o.op = "setRemote" /\ o.type = "offer" -> Issue(n, "createAnswer", "answer", o.from)
      [] o.op = "setLocal" -> SendDescription(n, o)
      [] OTHER -> n

\* the message is counted as handled
Handled(n) == [n EXCEPT !.handled = @ + 1]

\* A 'user-joined' message about peer u.
\* App.tsx (useWebRTC.ts handleSignalingMessage): the initiator notes the peer
\* and createOffer() runs up to its first await; the other side only notes it.
\* part_000: the handler was registered by an effect without dependencies, its
\* isHost is the one of the first render, false, and the case does nothing.
NegoUserJoined(u) ==
    /\ nego.handled < MaxMessages
    /\ nego' = IF nego.app = "App.tsx"
               THEN IF nego.host
                    THEN Issue([Handled(nego) EXCEPT !.room = u], "createOffer", "offer", "-")
                    ELSE [Handled(nego) EXCEPT !.room = u]
               ELSE Handled(nego)
    /\ negoEvent' = [type |-> "user-joined", userId |-> u]

\* An 'offer' message from peer u: createAnswer(offer) runs up to its first
\* await. App.tsx notes the sender first; part_000 hands every offer over
\* (!isHost of the first render), its messages name no sender: the offer came
\* through the room.
NegoOffer(u) ==
    /\ nego.handled < MaxMessages
    /\ nego' = IF nego.app = "App.tsx"
               THEN Issue([Handled(nego) EXCEPT !.room = u], "setRemote", "offer", u)
               ELSE Issue(Handled(nego), "setRemote", "offer", nego.room)
    /\ negoEvent' = [type |-> "offer", senderId |-> u]

\* An 'answer' message: handleAnswer(answer) runs up to its await. part_000
\* drops it (isHost of the first render).
NegoAnswer ==
    /\ nego.handled < MaxMessages
    /\ nego' = IF nego.app = "App.tsx"
               THEN Issue(Handled(nego), "setRemote", "answer", "-")
               ELSE Handled(nego)
    /\ negoEvent' = [type |-> "answer"]

\* the oldest operation settles: resolved, its caller goes on; rejected, the
\* caller's catch logs the error
OpSettles ==
    /\ nego.chain # <<>>
    /\ LET o == Head(nego.chain)
           n == [nego EXCEPT !.chain = Tail(@)]
       IN IF Accepts(nego.sig, o)
          THEN /\ nego' = Resume([n EXCEPT !.sig = After(@, o)], o)
               /\ negoEvent' = [type |-> "resolved", op |-> o.op, of |-> o.type]
          ELSE /\ nego' = [n EXCEPT !.errors = @ + 1]
               /\ negoEvent' = [type |-> "rejected", op |-> o.op, of |-> o.type]

NegotiateInit ==
    /\ ServerInit /\ server = "ws"
    /\ OrderIdle
    /\ ClientIdle
    /\ SignalIdle
    /\ \E app \in Apps, host \in BOOLEAN : nego = NewNego(app, host)
    /\ negoEvent = [type |-> "created"]
    /\ DispatchIdle

NegotiateNext ==
    \/ (\E u \in Peers : NegoUserJoined(u))
           /\ UNCHANGED <<serverVars, orderVars, roleVars, clientVars, signalVars, dispatchVars>>
    \/ (\E u \in Peers : NegoOffer(u))
           /\ UNCHANGED <<serverVars, orderVars, roleVars, clientVars, signalVars, dispatchVars>>
    \/ NegoAnswer /\ UNCHANGED <<serverVars, orderVars, roleVars, clientVars, signalVars, dispatchVars>>
    \/ OpSettles /\ UNCHANGED <<serverVars, orderVars, roleVars, clientVars, signalVars, dispatchVars>>

SpecNegotiate == NegotiateInit /\ [][NegotiateNext]_vars

\* ------------- services/signalingService.ts (lines 179-329) over
\* ------------- services/realSignalingService.ts, as unnamed/part_000 uses them

\* signalingService.setSimulationMode(enabled), called by createRoom and
\* joinRoom of part_000 with !useRealWebRTC. enabled: realSignalingService
\* .disconnect() drops the socket. Otherwise realSignalingService.connect()
\* makes a new socket unless the present one is connected, and one more
\* forwarding handler is registered on realSignalingService.
setSimulationMode(enabled) ==
    /\ dispatch.switches < MaxSwitches
    /\ dispatch' =
          IF enabled
          THEN [dispatch EXCEPT !.isSimulated = TRUE, !.socket = "null",
                                !.listeners = 0, !.switches = @ + 1]
          ELSE [dispatch EXCEPT !.isSimulated = FALSE,
                                !.socket = IF @ = "connected" THEN @ ELSE "connecting",
                                !.listeners = IF dispatch.socket = "connected" THEN @ ELSE 0,
                                !.forwarders = @ + 1,
                                !.switches = @ + 1]
    /\ dispatchEvent' = [type |-> "setSimulationMode", enabled |-> enabled]

\* the socket's 'connect' event, after the first connection and after every
\* reconnection: setupEventListeners()
RealConnect ==
    /\ dispatch.socket \in {"connecting", "down"}
    /\ dispatch.connects < MaxConnects
    /\ dispatch' = [dispatch EXCEPT !.socket = "connected", !.listeners = @ + 1,
                                    !.connects = @ + 1]
    /\ dispatchEvent' = [type |-> "connect"]

\* the connection is lost; socket.io keeps the socket and reconnects it
RealDrop ==
    /\ dispatch.socket = "connected"
    /\ dispatch' = [dispatch EXCEPT !.socket = "down"]
    /\ dispatchEvent' = [type |-> "drop"]

\* One message of the server arrives on the socket: every listener of its event
\* emits it on realSignalingService, every forwarding handler emits that on
\* signalingService, whose emit calls the App's subscriber.
RealMessage ==
    /\ dispatch.socket = "connected"
    /\ dispatch' = [dispatch EXCEPT !.delivered = dispatch.listeners * dispatch.forwarders]
    /\ dispatchEvent' = [type |-> "message"]

DispatchInit == Init /\ server = "ws"

DispatchNext ==
    \/ (\E enabled \in BOOLEAN : setSimulationMode(enabled))
           /\ UNCHANGED <<serverVars, orderVars, roleVars, clientVars, signalVars, negoVars>>
    \/ RealConnect
           /\ UNCHANGED <<serverVars, orderVars, roleVars, clientVars, signalVars, negoVars>>
    \/ RealDrop
           /\ UNCHANGED <<serverVars, orderVars, roleVars, clientVars, signalVars, negoVars>>
    \/ RealMessage
           /\ UNCHANGED <<serverVars, orderVars, roleVars, clientVars, signalVars, negoVars>>

SpecDispatch == DispatchInit /\ [][DispatchNext]_vars

\* ------------------------------------------------- vocabulary of the claims

\* the connections whose transport has not closed
Live == {c \in Conns : readyState[c] # "CLOSED"}

\* The occupants of room r: the live connections the server associates with r.
\* io: the socket ids in the room's Set. ws: the sockets whose connections
\* entry names r.
Occupants(r) ==
    IF server = "io"
    THEN {c \in Live : HasRoom(rooms, r) /\ c \in rooms[r]}
    ELSE {c \in Live : HasConnection(connections, c)
                       /\ GetConnection(connections, c).roomId = r}

\* the room/user association the server keeps for connection c
Association(c) ==
    IF server = "io"
    THEN [userId |-> socketUserId[c], roomId |-> socketRoomId[c]]
    ELSE IF HasConnection(connections, c)
         THEN [userId |-> GetConnection(connections, c).userId,
               roomId |-> GetConnection(connections, c).roomId]
         ELSE [userId |-> Undefined, roomId |-> Undefined]

\* the userId under which the server knows connection c
UserOf(c) == Association(c).userId

\* the messages of the last handler that went to connection c, in order
SentTo(s, c) == SelectSeq(s, LAMBDA m : m.to = c)

\* the payload a relayed message carries
PayloadOf(m) ==
    CASE "data" \in DOMAIN m -> m.data
      [] "offer" \in DOMAIN m -> m.offer
      [] "answer" \in DOMAIN m -> m.answer
      [] "candidate" \in DOMAIN m -> m.candidate

\* ----------------------------------------------------------------- claims

\* C1: every room in the registry has at most 2 participants, in every
\* reachable state.
C1_AtMostTwoParticipants ==
    \A r \in DOMAIN rooms :
        /\ Cardinality(rooms[r]) <= 2
        /\ Cardinality(Occupants(r)) <= 2

\* C1 (the part the code keeps): the Set the registry stores for a room never
\* has more than 2 elements.
C1_RoomSetAtMostTwo == \A r \in DOMAIN rooms : Cardinality(rooms[r]) <= 2

\* the last step handled a join-room message
IsJoin(e) == e.type = "join-room"

\* the last step handled a leave-room message or a transport close
IsDeparture(e) == e.type \in {"leave-room", "disconnect", "close"}

\* the last step handled an offer, an answer or an ice-candidate
IsRelay(e) == e.type \in Kinds

\* the registry as a whole: the rooms and every connection's association
Registry == <<rooms, [c \in Conns |-> Association(c)]>>

\* what C2 asks of one step of the server
C2_JoinFullRoomStep ==
    (IsJoin(lastEvent') /\ Cardinality(Occupants(lastEvent'.roomId)) >= 2)
        => /\ Len(sent') = 1
           /\ sent'[1].to = lastEvent'.conn
           /\ sent'[1].msg.type = "join-error"
           /\ Registry' = Registry

\* C2: a join-room for a room that already has two occupants is answered to the
\* requester with join-error and changes nothing: the rooms and every
\* connection's room/user association stay as they were, and nobody else is
\* sent anything.
C2_JoinFullRoomRejected == [][C2_JoinFullRoomStep]_vars

\* the room a departure of connection c takes it out of: every room it
\* occupies when its transport closes, the room of its association when it
\* sends leave-room
Departs(e, c, r) ==
    /\ IsDeparture(e)
    /\ e.conn = c
    /\ c \in Occupants(r)
    /\ (e.type = "leave-room" => Association(c).roomId = r)

\* the user-left messages among s
UserLefts(s) == SelectSeq(s, LAMBDA m : m.msg.type = "user-left")

\* what C3 asks of one step of the server
C3_DepartureStep ==
    /\ \A c \in Conns, x \in Conns, r \in RoomIds :
          (/\ Departs(lastEvent', c, r)
           /\ x # c
           /\ Occupants(r) = {c, x}
           /\ readyState[x] = "OPEN")
          => /\ HasRoom(rooms', r)
             /\ Cardinality(rooms'[r]) = 1
             /\ Occupants(r)' = {x}
             /\ Len(UserLefts(SentTo(sent', x))) = 1
             /\ UserLefts(SentTo(sent', x))[1].msg.userId = UserOf(c)
    /\ \A i \in 1..Len(sent') :
          sent'[i].msg.type = "user-left"
          => \E r \in RoomIds : /\ lastEvent'.conn \in Occupants(r)
                                /\ sent'[i].to \in Occupants(r)
                                /\ lastEvent'.conn \notin Occupants(r)'

\* C3: when one of the two occupants of a room departs (leave-room, transport
\* close, or leave-room and then the close of the same connection), the room is
\* left with exactly one participant and the remaining occupant gets exactly
\* one user-left for that departure: one when the occupant departs, and none
\* from any later event of a connection that is no longer in the room.
C3_OneUserLeftPerDeparture == [][C3_DepartureStep]_vars

\* what C4 asks of one step of the server
C4_LastDepartureStep ==
    /\ \A c \in Conns, r \in RoomIds :
          (Departs(lastEvent', c, r) /\ Occupants(r) = {c}) => ~HasRoom(rooms', r)
    /\ \A r \in DOMAIN rooms' : rooms'[r] # {} /\ Occupants(r)' # {}

\* C4: a departure (leave-room or transport close) of the only occupant of a
\* room removes the room from the registry, and after every event no room of
\* the registry is without participants.
C4_EmptyRoomRemoved == [][C4_LastDepartureStep]_vars

\* what a leave-room from c, and what the close of c's transport, would do now
LeaveEffect(c) ==
    IF server = "io" THEN IoLeaveRoomEffect(c) ELSE handleLeaveRoomEffect(c)

CloseEffect(c) ==
    IF server = "io" THEN IoDisconnectEffect(c) ELSE handleDisconnectionEffect(c)

\* the occupants of room r once the registry is rms / cs
ParticipantsAfter(eff, r) ==
    IF server = "io"
    THEN IF HasRoom(eff.rooms, r) THEN eff.rooms[r] ELSE {}
    ELSE {c \in Conns : HasConnection(eff.connections, c)
                        /\ GetConnection(eff.connections, c).roomId = r}

\* C5: the transport close of a connection that is in a room does what an
\* explicit leave-room from it does: the same rooms remain with the same
\* participants (so the same participant is gone from the same room, and the
\* room is gone if it became empty) and the same user-left goes to the same
\* connections.
C5_CloseSameAsLeave ==
    \A c \in Live :
        (\E r \in RoomIds : c \in Occupants(r))
        => /\ CloseEffect(c).rooms = LeaveEffect(c).rooms
           /\ CloseEffect(c).sent = LeaveEffect(c).sent
           /\ \A r \in RoomIds :
                 ParticipantsAfter(CloseEffect(c), r) = ParticipantsAfter(LeaveEffect(c), r)

\* a transport close of a connection that had a peer in its room has been handled
C5_Witness ==
    /\ lastEvent.type \in {"disconnect", "close"}
    /\ Len(UserLefts(sent)) = 1
    /\ Cardinality(DOMAIN rooms) = 1

\* A and B occupy room r: they are its two occupants, r is the room of each,
\* and the room's Set holds exactly the two of them (io: their socket ids;
\* ws: their two different userIds)
Occupy(A, B, r) ==
    /\ A # B
    /\ Occupants(r) = {A, B}
    /\ Association(A).roomId = r
    /\ Association(B).roomId = r
    /\ HasRoom(rooms, r)
    /\ rooms[r] = (IF server = "io" THEN {A, B} ELSE {UserOf(A), UserOf(B)})
    /\ UserOf(A) # UserOf(B)

\* B's transport closed, with no leave-room from B before
ClosedAbruptly(e, B) == e.type \in {"disconnect", "close"} /\ e.conn = B

\* what C6 as stated asks of one step of the server
C6_Step_RoomDeleted ==
    \A A \in Conns, B \in Conns, r \in RoomIds :
        (ClosedAbruptly(lastEvent', B) /\ Occupy(A, B, r) /\ readyState[A] = "OPEN")
        => /\ Len(UserLefts(SentTo(sent', A))) = 1
           /\ UserLefts(SentTo(sent', A))[1].msg.userId = UserOf(B)
           /\ ~HasRoom(rooms', r)

C6_Step_RoomKept ==
    \A A \in Conns, B \in Conns, r \in RoomIds :
        (ClosedAbruptly(lastEvent', B) /\ Occupy(A, B, r) /\ readyState[A] = "OPEN")
        => /\ Len(sent') = 1
           /\ sent'[1].to = A
           /\ sent'[1].msg.type = "user-left"
           /\ sent'[1].msg.userId = UserOf(B)
           /\ HasRoom(rooms', r)
           /\ Cardinality(rooms'[r]) = 1
           /\ Occupants(r)' = {A}

RelayRoom(e, c) == IF server = "io" THEN e.roomId ELSE Association(c).roomId

\* what C7 asks of one step of the server
C7_RelayStep ==
    IsRelay(lastEvent') =>
        /\ SentTo(sent', lastEvent'.conn) = <<>>
        /\ \A x \in Conns, r \in RoomIds :
              (/\ HasRoom(rooms, r)
               /\ x # lastEvent'.conn
               /\ Occupants(r) = {lastEvent'.conn, x}
               /\ RelayRoom(lastEvent', lastEvent'.conn) = r
               /\ readyState[x] = "OPEN")
              => /\ Len(SentTo(sent', x)) = 1
                 /\ SentTo(sent', x)[1].msg.type = lastEvent'.type
                 /\ PayloadOf(SentTo(sent', x)[1].msg) = lastEvent'.payload

\* C7: an offer, answer or ice-candidate sent by one occupant of a
\* two-occupant room goes to the other occupant, once, with the same type and
\* the very payload that was sent, and never back to the sender.
C7_RelayedToTheOtherOccupant == [][C7_RelayStep]_vars

\* what C8 asks of one step of the server
C8_RelayStep ==
    IsRelay(lastEvent') =>
        \A i \in 1..Len(sent') :
            \E r \in RoomIds : {lastEvent'.conn, sent'[i].to} \subseteq Occupants(r)

\* C8: an offer, answer or ice-candidate only ever goes to a connection that
\* is in a room together with its sender.
C8_RelayStaysInTheRoom == [][C8_RelayStep]_vars

\* the join of the last step was accepted
Accepted(s) == Len(s) >= 1 /\ s[1].msg.type = "joined-room"

\* what C9 asks of one step of the server
C9_JoinStep ==
    \A r \in RoomIds :
        (IsJoin(lastEvent') /\ lastEvent'.roomId = r) =>
            /\ ~HasRoom(rooms, r)
               => /\ HasRoom(rooms', r)
                  /\ Accepted(sent')
                  /\ sent'[1].to = lastEvent'.conn
                  /\ "isHost" \in DOMAIN sent'[1].msg
                  /\ sent'[1].msg.isHost = TRUE
            /\ (/\ Accepted(sent')
                /\ Cardinality(Occupants(r)) = 1
                /\ Cardinality(Occupants(r)') = 2)
               => /\ sent'[1].to = lastEvent'.conn
                  /\ "isHost" \in DOMAIN sent'[1].msg
                  /\ sent'[1].msg.isHost = FALSE

\* C9: a join-room for a room id that is not in the registry creates the room
\* and is answered with joined-room, isHost = true; an accepted join-room that
\* brings the room to two occupants is answered with joined-room, isHost = false.
C9_JoinedRoomCarriesRole == [][C9_JoinStep]_vars

\* the last step was an accepted join that brought its room from one occupant to two
JoinMadePair(e, s) ==
    /\ IsJoin(e)
    /\ Accepted(s)
    /\ Cardinality(Occupants(e.roomId)) = 1
    /\ e.conn \notin Occupants(e.roomId)

\* what C10 asks of one step of the server
C10_JoinStep ==
    /\ JoinMadePair(lastEvent', sent')
       => \A x \in Occupants(lastEvent'.roomId) :
             readyState[x] = "OPEN"
             => /\ Len(sent') = 2
                /\ sent'[1].to = lastEvent'.conn
                /\ sent'[1].msg.type = "joined-room"
                /\ sent'[2].to = x
                /\ sent'[2].msg.type = "user-joined"
                /\ sent'[2].msg.userId = lastEvent'.userId
    /\ \A i \in 1..Len(sent') :
          sent'[i].msg.type = "user-joined"
          => /\ JoinMadePair(lastEvent', sent')
             /\ sent'[i].to \in Occupants(lastEvent'.roomId)
             /\ sent'[i].to # lastEvent'.conn
             /\ i > 1

\* C10: a user-joined carrying the joiner's userId is sent exactly when an
\* accepted join brings the room to two occupants; it goes to the occupant
\* that was already there, never to the joiner, and after the joiner's
\* joined-room; a join that leaves the room with one occupant sends none.
C10_UserJoinedOnPairing == [][C10_JoinStep]_vars

InNoRoom(c) == \A r \in RoomIds : c \notin Occupants(r)

\* what C12 asks of one step of the server
C12_NoOpStep ==
    \A c \in Conns :
        (IsDeparture(lastEvent') /\ lastEvent'.conn = c /\ InNoRoom(c))
        => /\ sent' = <<>>
           /\ rooms' = rooms
           /\ \A x \in Conns \ {c} : Association(x)' = Association(x)

\* C12: a leave-room or a transport close from a connection that is in no room
\* (never joined, join rejected, already left) is a no-op: the rooms and the
\* other connections' associations stay as they are and nobody is sent anything.
C12_DepartureFromNoRoomIsNoOp == [][C12_NoOpStep]_vars

\* C13: no connection is an occupant of two rooms at the same time, whatever
\* the events were, a join-room for a second room without a leave-room included.
C13_AtMostOneRoomPerConnection ==
    \A c \in Conns : Cardinality({r \in RoomIds : c \in Occupants(r)}) <= 1

\* the candidates that arrived in this call attempt, in arrival order
Arrived(st) == [i \in 1..st.arrived |-> i]

\* what C14 asks of one step of the client
C14_CandidateStep ==
    /\ (clientEvent'.type = "ice-candidate" /\ client'.applied # client.applied)
       => client.rd
    /\ (client'.pc = "open" /\ client'.rd) => client'.applied = Arrived(client')

\* C14: a remote ICE candidate is never applied to the peer connection before
\* the remote description is set; the candidates that arrived earlier are held
\* and, once the remote description is set, have all been applied in arrival order.
C14_CandidatesHeldUntilRemoteDescription == [][C14_CandidateStep]_vars

\* what C15 asks of one step of the client
C15_CandidateStep ==
    (clientEvent'.type = "ice-candidate" /\ client.pc = "null")
    => \A i \in 1..Len(client'.lost) : client'.lost[i].cand # clientEvent'.cand

\* C15: a remote ICE candidate received while no peer connection exists is
\* not given up: it is kept for the peer connection to come.
C15_CandidateWithoutPeerConnectionKept == [][C15_CandidateStep]_vars

\* the client after one cleanup, after two in one task (two handlers of one
\* event), and after two in two tasks
CleanedOnce(st) == Settle(cleanup(Task(st)))

CleanedTwice(st) == Settle(cleanup(cleanup(Task(st))))

CleanedAgain(st) == CleanedOnce(CleanedOnce(st))

\* what teardown leaves of a client: its refs and how often resources were released
Released(st) == <<st.pc, st.local, st.remote, st.room, st.stops, st.closes>>

\* C16 (idempotence): a second cleanup changes nothing that the first one left:
\* the refs are the same and neither the tracks are stopped nor the peer
\* connection closed a second time.
C16_CleanupIdempotent ==
    /\ Released(CleanedTwice(client)) = Released(CleanedOnce(client))
    /\ Released(CleanedAgain(client)) = Released(CleanedOnce(client))
    /\ CleanedOnce(client).stops <= client.stops + 1
    /\ CleanedOnce(client).closes <= client.closes + 1

\* C16 (end state): after cleanup the peer connection, the local stream, the
\* remote stream and the current room are all cleared.
C16_CleanupClearsAll ==
    LET st == CleanedOnce(client)
    IN st.pc = "null" /\ st.local = "null" /\ st.remote = "null" /\ st.room = "null"

\* the step set isConnected to 'connected'
BecameConnected == client'.ui = "connected" /\ client.ui # "connected"

\* what C17 asks of one step of the client
C17_ConnectedStep ==
    BecameConnected =>
        /\ clientEvent'.type = "connectionstatechange"
        /\ clientEvent'.state = "connected"

\* C17: the call state becomes 'connected' only in the step in which
\* pc.onconnectionstatechange reports 'connected'.
C17_ConnectedOnlyByAggregateState == [][C17_ConnectedStep]_vars

\* the event is a state callback of the peer connection with an end state
PcEnded(ev) ==
    /\ ev.type \in {"connectionstatechange", "iceconnectionstatechange"}
    /\ ev.state \in EndStates

\* the event ends a session: the peer connection reports an end state, or the
\* peer is gone
EndOfSession(ev) == PcEnded(ev) \/ ev.type \in {"user-left", "socket-disconnect"}

\* the local tracks are stopped, the peer connection closed, the remote stream cleared
TornDown(st) == st.pc = "null" /\ st.local = "null" /\ st.remote = "null"

\* what C18 asks of one step of the client
C18_EndStep ==
    /\ (EndOfSession(clientEvent') /\ client.pc = "open")
       => (TornDown(client') /\ client'.reports = client.reports + 1)
    /\ (PcEnded(clientEvent) /\ clientEvent'.type # "start")
       => client'.reports = client.reports

\* C18: the event that ends a session tears the call down and is reported to the
\* state-change callback once; once the peer connection's end state was
\* reported, nothing more is reported for that call attempt.
C18_EndReportedExactlyOnce == [][C18_EndStep]_vars

\* the calls that make up the teardown
TeardownOps == {Op("stopTracks"), Op("closePc"), Op("clearRemote")}

\* a leave message is sent in d before any call of the teardown
LeaveThenTeardown(d) ==
    \E i \in 1..Len(d) :
        /\ d[i] = Op("leave")
        /\ \A j \in 1..(i - 1) : d[j] \notin TeardownOps

\* what C19 asks of one step of the client
C19_HangUpStep ==
    (clientEvent'.type = "hang-up" /\ client.transport /\ client.userId)
    => /\ LeaveThenTeardown(did')
       /\ TornDown(client')
       /\ client'.ui = "disconnected"

\* C19: a hang-up, whatever the call state, with the socket connected and the
\* user id known, sends a leave message, then tears the call down and ends
\* disconnected.
C19_HangUpLeavesThenTearsDown == [][C19_HangUpStep]_vars

\* what C20 asks of one step of the client: the peer's user-left tears the
\* session down and reports 'disconnected'
C20_UserLeftStep ==
    clientEvent'.type = "user-left"
    => /\ TornDown(client')
       /\ client'.ui = "disconnected"
       /\ \E i \in 1..Len(did') : did'[i] = [op |-> "report", state |-> "disconnected"]

\* C20 (the peer's side): on user-left the client closes its peer connection,
\* stops its local tracks, clears its remote stream and reports 'disconnected'.
C20_PeerTearsDown == [][C20_UserLeftStep]_vars

\* what C20 asks of one step of the ws server
C20_LeaveStep ==
    \A c \in Conns, x \in Conns, r \in RoomIds :
        (/\ server = "ws"
         /\ lastEvent'.type = "leave-room" /\ lastEvent'.conn = c
         /\ x # c
         /\ {c, x} \subseteq Occupants(r)
         /\ readyState[x] = "OPEN")
        => UserLefts(SentTo(sent', x)) # <<>>

\* C20 (the relay's side): when an occupant of a room sends leave-room, the ws
\* server sends user-left to the other occupant of the room.
C20_LeaveNotifiesPeer == [][C20_LeaveStep]_vars

\* what C21 asks of one step of the client
C21_CreateStep ==
    clientEvent'.type = "pc-created"
    => (client.pc = "null" /\ client.local = "null")

\* C21: when a call attempt constructs its peer connection, the client holds no
\* open peer connection and no live local stream of an earlier attempt.
C21_OnePeerConnection == [][C21_CreateStep]_vars

\* the timers set in d, and the messages d emitted to the subscribers or sent
TimersSet(d) == SelectSeq(d, LAMBDA o : o.op = "setTimeout")

Emitted(d) == SelectSeq(d, LAMBDA o : o.op = "emit")

SentOut(d) == SelectSeq(d, LAMBDA o : o.op = "send")

\* what C22 asks of one step of the signaling client
C22_ReconnectStep ==
    /\ signal'.tries <= maxReconnectAttempts
    /\ (signalEvent'.type = "close" /\ signal.tries = maxReconnectAttempts)
       => /\ Emitted(signalDid') = <<[op |-> "emit", message |-> [type |-> "error"]]>>
          /\ TimersSet(signalDid') = <<>>
          /\ signal'.timers = 0

RECURSIVE Pow2(_)
Pow2(n) == IF n = 0 THEN 1 ELSE 2 * Pow2(n - 1)

\* what C23 asks of one step of the signaling client
C23_DelayStep ==
    \A i \in 1..Len(TimersSet(signalDid')) :
        TimersSet(signalDid')[i].delay
            = InitialReconnectDelay * Pow2(signal'.reconnectAttempts - 1)

\* C23: the timer of the k-th reconnection attempt in a row is set to
\* 1000 * 2^(k-1) ms, k counted from the last successful open.
C23_DelayIsBaseTimesPowerOfTwo == [][C23_DelayStep]_vars

\* what C24 asks of one step of the signaling client
C24_ReopenStep ==
    (signalEvent'.type = "open" /\ signal.tries > 0 /\ signal.joined)
    => SentOut(signalDid') = <<>>

\* C24: when the transport was lost during a call and opens again, the client
\* does not go back into the room it was in: it sends no join-room.
C24_NoResumeAfterReconnect == [][C24_ReopenStep]_vars

\* what C25 asks of one step of the signaling client
C25_CloseStep ==
    signalEvent'.type = "close" => Emitted(signalDid') # <<>>

\* C25: every close of the transport emits a message (user-left or connection
\* lost) to the subscribers.
C25_CloseNotifiesSubscribers == [][C25_CloseStep]_vars

\* what C26 asks of one step of the signaling client
C26_OpenStep ==
    signalEvent'.type = "open"
    => IF Truthy(signal.currentRoomId) /\ Truthy(signal.currentUserId)
       THEN /\ signalDid' = <<[op |-> "send",
                               message |-> [type |-> "join-room",
                                            roomId |-> signal.currentRoomId,
                                            userId |-> signal.currentUserId]]>>
            /\ signal'.currentRoomId = signal.currentRoomId
            /\ signal'.currentUserId = signal.currentUserId
       ELSE signalDid' = <<>>

C27_SendStep ==
    (signalEvent'.type = "call" /\ ~signalEvent'.open)
    => /\ \A i \in 1..Len(signalDid') : signalDid'[i].op \notin {"throw", "send"}
       /\ \E i \in 1..Len(signalDid') : signalDid'[i].op = "warn"
       /\ signalEvent'.returned = "false"

\* C27: a sender called while the transport is not open throws nothing, sends
\* nothing, logs the failure and returns false.
C27_SendWhileClosedIsQuiet == [][C27_SendStep]_vars

\* the calls that start or restart an attempt
StartOps == {Op("createPc"), Op("getUserMedia"), Op("join")}

\* what C28 asks of one step of the client
C28_RefusedStep ==
    (clientEvent'.type = "media" /\ ~clientEvent'.granted)
    => /\ \A i \in 1..Len(did') : did'[i] \notin StartOps
       /\ client.pc = "open" => \E i \in 1..Len(did') : did'[i] = Op("closePc")
       /\ client'.pc = "null"
       /\ client'.local = "null"
       /\ client'.ui = "disconnected"
       /\ client'.error
       /\ client'.starting = "no"

C29_FailedWhileConnectingStep ==
    (/\ PcEnded(clientEvent')
     /\ clientEvent'.type = "connectionstatechange"
     /\ client.ui = "connecting")
    => client'.ui = "disconnected"

\* C29: when pc.onconnectionstatechange reports an end state while the call
\* state is 'connecting', the call state becomes 'disconnected'.
C29_ConnectingEndsDisconnected == [][C29_FailedWhileConnectingStep]_vars

\* the setLocalDescription / setRemoteDescription calls not settled yet
DescriptionOps(n) == SelectSeq(n.chain, LAMBDA o : o.op \in {"setLocal", "setRemote"})

\* C30: at most one setLocalDescription / setRemoteDescription call of a peer
\* connection is outstanding at any time.
C30_OneDescriptionOperation == Len(DescriptionOps(nego)) <= 1

\* the descriptions of the given type the step sent to the peer
NewlySent(type) ==
    SelectSeq(SubSeq(nego'.sentOut, Len(nego.sentOut) + 1, Len(nego'.sentOut)),
              LAMBDA m : m.type = type)

\* the step issued operation op on the peer connection
Issued(op, type) ==
    /\ Len(nego'.chain) >= 1
    /\ nego'.chain[Len(nego'.chain)].op = op
    /\ nego'.chain[Len(nego'.chain)].type = type
    /\ Len(nego'.chain) + (IF negoEvent'.type \in {"resolved", "rejected"} THEN 1 ELSE 0)
           = Len(nego.chain) + 1

\* the step settled operation op as resolved
Resolved(op, type) ==
    negoEvent'.type = "resolved" /\ negoEvent'.op = op /\ negoEvent'.of = type

\* what C31 asks of one step of the responder, the addressee left aside
C31_OrderStep ==
    /\ negoEvent'.type = "offer" => Issued("setRemote", "offer")
    /\ Resolved("setRemote", "offer") => Issued("createAnswer", "answer")
    /\ Resolved("createAnswer", "answer") => Issued("setLocal", "answer")
    /\ Resolved("setLocal", "answer") => Len(NewlySent("answer")) = 1
    /\ NewlySent("answer") # <<>>
           => Resolved("setLocal", "answer") /\ nego'.sig = "stable"
    /\ negoEvent'.type = "rejected" => nego'.sentOut = nego.sentOut

\* C31 (the part the code keeps): an offer is set as the remote description,
\* then the answer is created, then set as the local description, then sent;
\* no answer is sent before both descriptions are set or after a step failed.
C31_AnswerAfterBothDescriptions == [][C31_OrderStep]_vars

\* what C31 asks of one step of the responder
C31_AnswerStep ==
    /\ C31_OrderStep
    /\ \A i \in 1..Len(NewlySent("answer")) :
           NewlySent("answer")[i].to = NewlySent("answer")[i].from

\* C31: on an offer the responder sets it as the remote description, creates an
\* answer, sets it as the local description and sends it addressed to the
\* sender of the offer; never before both descriptions are set, and not at all
\* if a step fails.
C31_AnswerToSenderOfOffer == [][C31_AnswerStep]_vars

\* an answer went out
C31_Witness == \E i \in 1..Len(nego.sentOut) : nego.sentOut[i].type = "answer"

\* what C32 asks of one step
C32_OfferStep ==
    /\ (negoEvent'.type = "user-joined" /\ nego.host) => Issued("createOffer", "offer")
    /\ Resolved("createOffer", "offer") => Issued("setLocal", "offer")
    /\ Resolved("setLocal", "offer") => Len(NewlySent("offer")) = 1
    /\ NewlySent("offer") # <<>>
           => Resolved("setLocal", "offer") /\ nego'.sig = "have-local-offer"
    /\ ~nego.host
           => /\ \A i \in 1..Len(nego'.chain) : nego'.chain[i].op # "createOffer"
              /\ NewlySent("offer") = <<>>

\* C32 (the part the code keeps): with src/App.tsx the initiator creates the
\* offer when the peer is announced, sets it as its local description and only
\* then sends it, and the other side never creates an offer.
C32_InitiatorOffersInAppTsx == [][nego.app = "App.tsx" => C32_OfferStep]_vars

\* C32: once the peer is present the initiator constructs an offer, sets it as
\* its local description and only then sends it; the initiator is the only one
\* of the two peers that creates an offer.
C32_InitiatorOffers == [][C32_OfferStep]_vars

\* what C33 asks of one step of the client
C33_CandidateStep ==
    clientEvent'.type = "icecandidate" => did' = <<Op("sendCandidate")>>

\* C33 (the part the code keeps): every candidate gathered by the peer
\* connection the client holds is sent through the signaling socket.
C33_CurrentCandidatesSent ==
    [][clientEvent'.type = "icecandidate" /\ clientEvent'.of = "current"
           => did' = <<Op("sendCandidate")>>]_vars

\* C33: every ICE candidate produced locally is sent through the signaling
\* channel to the recipient of the offer/answer; none is dropped.
C33_CandidatesSent == [][C33_CandidateStep]_vars

\* C38: at most one leave message is sent per session, even when teardown is
\* requested again before the first leave completed.
C38_AtMostOneLeave == client.leaves <= 1

\* the step handled the close event of a socket that disconnect() had closed
CloseAfterDisconnect ==
    signalEvent'.type = "close" /\ signal'.stale < signal.stale

\* what C34 asks of one step of the signaling client
C34_CloseStep ==
    CloseAfterDisconnect
        => /\ TimersSet(signalDid') = <<>>
           /\ signal'.timers = signal.timers
           /\ signal'.ws = signal.ws

\* C34: after an explicit disconnect() the close of the transport triggers no
\* reconnection attempt; no new transport comes into being until connect() is
\* called again.
C34_DisconnectStaysClosed == [][C34_CloseStep]_vars

\* every entry of the connection table names an existing room that holds the
\* entry's userId
EntriesHaveRooms ==
    \A i \in 1..Len(connections) :
        /\ HasRoom(rooms, connections[i].roomId)
        /\ connections[i].userId \in rooms[connections[i].roomId]

\* every userId in a room belongs to an entry of the connection table that names
\* the room
MembersHaveEntries ==
    \A r \in DOMAIN rooms : \A u \in rooms[r] :
        \E i \in 1..Len(connections) :
            connections[i].roomId = r /\ connections[i].userId = u

\* C35: in signalingServer.js the connection table and the room table agree:
\* every connection entry names an existing room that contains its userId, and
\* every userId in a room belongs to a connection entry naming that room.
C35_TablesConsistent == server = "ws" => (EntriesHaveRooms /\ MembersHaveEntries)

\* every connection has closed, those that joined a room among them
AllClosed == \A c \in Conns : readyState[c] = "CLOSED"

\* C36: once every connection that ever joined a room has closed, the registry
\* holds no room and no association of a connection with a room.
C36_NothingLeftBehind ==
    AllClosed => /\ DOMAIN rooms = {}
                 /\ \A c \in Conns : Association(c).roomId = Undefined

\* the occupants of room r that were told they are the host
Hosts(r) == {c \in Occupants(r) : isHost[c] = "true"}

\* C37: whenever a room of server.js has two occupants, exactly one of them was
\* told isHost = true in its joined-room reply, also after the first host left
\* and somebody joined the occupant that stayed.
C37_OneHostPerPair ==
    server = "io"
        => \A r \in RoomIds :
               Cardinality(Occupants(r)) = 2 => Cardinality(Hosts(r)) = 1

\* C39: each message received from the signaling server is dispatched to each
\* subscriber of the signaling service exactly once, after any number of
\* connects, reconnects and setSimulationMode calls.
C39_DispatchedOnce ==
    [][dispatchEvent'.type = "message" => dispatch'.delivered = 1]_vars

====
